---- MODULE Spec2Model ----
(***************************************************************************)
(* Model of the wallet service's batching send path                        *)
(* (src/electrum_cmd_util.py, class APICmdUtil: presend, send,             *)
(* _get_tx_details, _init_cmd_manager) together with the parts of          *)
(* ElectrumCmdUtil it drives (wait_for_connection, wait_for_fee_estimates, *)
(* get_tx_size, create_tx, async_broadcast).                               *)
(*                                                                         *)
(* The handlers are asyncio coroutines: a coroutine runs without           *)
(* interruption until it reaches an await that really suspends.  The       *)
(* handlers are therefore split into actions at their awaits, and an await *)
(* that finds its condition already true does not end the action: Run      *)
(* carries a call from where it stands to its next real suspension.        *)
(*                                                                         *)
(* Amounts.  A BTC amount held in a Python float is represented by the     *)
(* integer n of satoshis it denotes (the float nearest to n * 1e-8).  The  *)
(* conversions back to integer satoshis are modelled by what they return   *)
(* for that float: int(x * 1.0e8) truncates the rounded product            *)
(* (IntTimes1e8); electrum's satoshis() is int(COIN * Decimal(x)) in the   *)
(* 4.0 releases, which truncates the exact binary value, and               *)
(* int(COIN * Decimal(str(x))) from 4.1 on, which is exact (Satoshis).     *)
(* Which electrum the service runs with is not fixed by the repository: a  *)
(* transaction is recorded with the floats create_tx was given, and what   *)
(* it pays is read off with TxOuts and TxFee for either conversion.        *)
(*                                                                         *)
(* Environment.  The connection and the fee estimates the calls poll for   *)
(* come up, and can be lost again (NetDrop); the process can be killed and *)
(* started again while calls are in progress (Crash): the ledger and the   *)
(* saved wallet files survive, the calls do not.                           *)
(***************************************************************************)
EXTENDS Integers, Sequences, FiniteSets, TLC

(* ---------------- bounds of the model ---------------- *)
MaxReq == 2          \* rows the ledger may hold
NumCycles == 2       \* concurrently running API calls
NumWallets == 2

Cycles == 1..NumCycles
Wallets == 1..NumWallets
\* the (addr, btc_amount) pairs callers ask for; the amount is the number of
\* satoshis the float denotes
Payments == {<<"addr1", 16>>, <<"addr2", 20>>}
FeeValues == {1, 3}         \* results of conf.estimate_fee (satoshis)

(* ---------------- configuration ---------------- *)
BatchingThresholdPct == 5   \* config['USER']['batching_threshold']

(* ---------------- float conversions ---------------- *)
\* n in 1..150 for which int((n / 1.0e8) * 1.0e8) = n - 1 in IEEE double arithmetic
FloatMulLow == {3, 6, 12, 24, 29, 48, 58, 59, 96, 105, 107, 116, 118, 127}

\* n in 1..150 for which int(COIN * Decimal(n / 1.0e8)) = n - 1
DecimalLow ==
  {3, 5, 6, 9, 10, 12, 13, 15, 17, 18, 20, 23, 24, 25, 26, 29, 30, 31, 34, 35,
   36, 40, 41, 45, 46, 47, 48, 49, 50, 51, 52, 58, 59, 60, 61, 62, 68, 69, 70,
   71, 72, 73, 79, 80, 81, 82, 83, 89, 90, 91, 92, 93, 94, 96, 98, 100, 102,
   104, 105, 107, 109, 111, 113, 116, 118, 120, 122, 124, 127, 129, 131, 133,
   135, 136, 138, 140, 142, 144, 146, 147, 149}

\* int(x * 1.0e8) for the float x denoting n satoshis
IntTimes1e8(n) == IF n \in FloatMulLow THEN n - 1 ELSE n

\* electrum.commands.satoshis / satoshis_or_max for the float denoting n
\* satoshis: int(COIN * Decimal(x)) when truncating, else int(COIN * Decimal(str(x)))
Satoshis(n, truncating) == IF truncating /\ n \in DecimalLow THEN n - 1 ELSE n

(* ---------------- ledger (db_manager) ---------------- *)
NoTxid == 0
NoFee == -1

\* a freshly inserted row: no txid, no fee
NewRow(addr, amount, wallet_id) ==
  [wallet_id |-> wallet_id, address |-> addr, amount |-> amount,
   txid |-> NoTxid, fee |-> NoFee]

\* DbManager.insert_transaction: append a row, its sr_id is its position
InsertTransaction(led, addr, amount, wallet_id) ==
  Append(led, NewRow(addr, amount, wallet_id))

\* the sr_ids in ids (a set) as a sequence, oldest first
RECURSIVE SortedIds(_)
SortedIds(ids) ==
  IF ids = {} THEN <<>>
  ELSE LET m == CHOOSE i \in ids : \A j \in ids : i <= j
       IN <<m>> \o SortedIds(ids \ {m})

\* the rows of a wallet that have no txid
UnsentIds(led, wallet_id) ==
  {i \in 1..Len(led) : led[i].wallet_id = wallet_id /\ led[i].txid = NoTxid}

\* get_send_history: a row with a txid is 'sent', any other row is 'queued'
Status(row) == IF row.txid # NoTxid THEN "Sent" ELSE "Queued"

\* DbManager.get_unsent: the unsent rows of the wallet, oldest first
GetUnsent(led, wallet_id) == SortedIds(UnsentIds(led, wallet_id))

RECURSIVE SumOver(_, _)
SumOver(f, ids) ==
  IF ids = {} THEN 0
  ELSE LET i == CHOOSE j \in ids : TRUE
       IN f[i] + SumOver(f, ids \ {i})

\* proportional integer share of row i, before the remainder is assigned
FloorShare(led, i, total_fee, total_sat_amount) ==
  (led[i].amount * total_fee) \div total_sat_amount

\* the row that takes the rounding remainder: the largest amount, oldest first
LargestId(led, ids) ==
  CHOOSE i \in ids : \A j \in ids :
    led[i].amount > led[j].amount \/ (led[i].amount = led[j].amount /\ i <= j)

\* fee attributions of the rows ids: proportional, remainder to the largest
Attribution(led, ids, total_fee, total_sat_amount) ==
  LET fl == [i \in ids |-> FloorShare(led, i, total_fee, total_sat_amount)]
      rem == total_fee - SumOver(fl, ids)
  IN [i \in ids |-> IF i = LargestId(led, ids) THEN fl[i] + rem ELSE fl[i]]

\* update_transactions without the restriction to unsent rows: every row of
\* the wallet is stamped again
UpdateTransactionsAll(led, wallet_id, txid, total_fee, total_sat_amount) ==
  LET ids == {i \in 1..Len(led) : led[i].wallet_id = wallet_id}
      att == Attribution(led, ids, total_fee, total_sat_amount)
  IN [i \in 1..Len(led) |->
        IF i \in ids THEN [led[i] EXCEPT !.txid = txid, !.fee = att[i]]
        ELSE led[i]]

\* DbManager.update_transactions(wallet_id, txid, total_fee, total_sat_amount):
\* every unsent row of the wallet gets the txid and its fee share
UpdateTransactions(led, wallet_id, txid, total_fee, total_sat_amount) ==
  LET ids == UnsentIds(led, wallet_id)
      att == Attribution(led, ids, total_fee, total_sat_amount)
  IN [i \in 1..Len(led) |->
        IF i \in ids THEN [led[i] EXCEPT !.txid = txid, !.fee = att[i]]
        ELSE led[i]]

(* ---------------- state ---------------- *)
VARIABLES
  ledger,        \* the rows of the payment table, sr_id = position
  wdisk,         \* per wallet: txids of the transactions in the saved wallet file
  network,       \* the transactions the network has accepted
  connected,     \* network.is_connected()
  feeEstimates,  \* network.get_fee_estimates() is non-empty
  cyc            \* per API call: its position and local variables

vars == <<ledger, wdisk, network, connected, feeEstimates, cyc>>

\* an API call slot with no call in progress
IdleCycle ==
  [pc |-> "idle", kind |-> "none", addr |-> "none", btc_amount |-> 0,
   wallet_id |-> 0, wview |-> {}, unsent |-> <<>>,
   total_sat_amount |-> 0, total_fee |-> 0, this_tx_fee |-> <<0, 1>>,
   sr_id |-> 0, txid |-> NoTxid, pw_ok |-> TRUE, err |-> "none"]

Init ==
  /\ ledger = <<>>
  /\ wdisk = [w \in Wallets |-> {}]
  /\ network = {}
  /\ connected = FALSE
  /\ feeEstimates = FALSE
  /\ cyc = [c \in Cycles |-> IdleCycle]

\* the set of elements of a sequence
Range(s) == {s[i] : i \in 1..Len(s)}

\* send calls that have not yet inserted their row
PendingInserts ==
  {c \in Cycles : cyc[c].kind = "send" /\ cyc[c].pc \in {"wait_conn", "wait_fee"}}

(* ---------------- _init_cmd_manager ---------------- *)
\* the call's state once the wallet file is loaded and the network started:
\* it waits for the connection
InitCmdManager(kind, wallet_id, wallet_file) ==
  [IdleCycle EXCEPT !.pc = "wait_conn", !.kind = kind, !.wallet_id = wallet_id,
                    !.wview = wallet_file]

(* ---------------- _get_tx_details, up to the fee wait ---------------- *)
\* sat_amount = int(btc_amount * 1.0e8)
SatAmount(rec) == IntTimes1e8(rec.btc_amount)

\* total_sat_amount started at 0 instead of sat_amount: the new request is
\* left out of the total
TotalSatAmountWithoutNew(led, sat_amount, unsent) ==
  SumOver([i \in Range(unsent) |-> led[i].amount], Range(unsent))

\* total_sat_amount: the new amount plus the amounts of the unsent rows
TotalSatAmount(led, sat_amount, unsent) ==
  sat_amount + SumOver([i \in Range(unsent) |-> led[i].amount], Range(unsent))

\* GetTxDetails without the comparison of the API password: a call with a
\* wrong password goes on like any other
GetTxDetailsNoPasswordCheck(rec, led, addr, btc_amount, pw_ok) ==
  LET unsent == GetUnsent(led, rec.wallet_id)
  IN [rec EXCEPT !.pc = "wait_fee", !.addr = addr, !.btc_amount = btc_amount,
                 !.unsent = unsent, !.pw_ok = pw_ok,
                 !.total_sat_amount =
                    TotalSatAmount(led, IntTimes1e8(btc_amount), unsent)]

\* The connection is up: the API password is compared (pw_ok), then
\* _get_tx_details(addr, btc_amount) reads the unsent rows of the wallet and
\* the call waits for fee estimates.  The arguments are first read here.
GetTxDetails(rec, led, addr, btc_amount, pw_ok) ==
  IF ~pw_ok
  THEN [rec EXCEPT !.pc = "failed", !.err = "password", !.pw_ok = FALSE]
  ELSE LET unsent == GetUnsent(led, rec.wallet_id)
       IN [rec EXCEPT !.pc = "wait_fee", !.addr = addr, !.btc_amount = btc_amount,
                      !.unsent = unsent,
                      !.total_sat_amount =
                         TotalSatAmount(led, IntTimes1e8(btc_amount), unsent)]

\* outputs: the new request first, then the unsent rows, as (address, BTC float)
Outputs(rec, led) ==
  <<<<rec.addr, rec.btc_amount>>>> \o
  [k \in 1..Len(rec.unsent) |->
     <<led[rec.unsent[k]].address, led[rec.unsent[k]].amount>>]

(* ---------------- _get_tx_details, after the fee wait ---------------- *)
\* this_tx_fee = sat_amount / total_sat_amount * total_fee, as <<numerator, denominator>>
ThisTxFee(rec, total_fee) == <<SatAmount(rec) * total_fee, rec.total_sat_amount>>

\* Estimate without the early return of presend: a presend goes on to the
\* insert and the decision like a send
EstimateNoDryRun(rec, ok, fee) ==
  IF ~ok THEN [rec EXCEPT !.pc = "failed", !.err = "estimate"]
  ELSE [rec EXCEPT !.pc = "decide", !.total_fee = fee,
                   !.this_tx_fee = ThisTxFee(rec, fee)]

\* Fee estimates are there: the size is estimated (get_tx_size may raise) and
\* the total fee computed.  presend returns here; send goes on to decide.
Estimate(rec, ok, fee) ==
  IF ~ok THEN [rec EXCEPT !.pc = "failed", !.err = "estimate"]
  ELSE IF rec.kind = "presend"
       THEN [rec EXCEPT !.pc = "done", !.total_fee = fee,
                        !.this_tx_fee = ThisTxFee(rec, fee)]
       ELSE [rec EXCEPT !.pc = "decide", !.total_fee = fee,
                        !.this_tx_fee = ThisTxFee(rec, fee)]

(* ---------------- send: insert, decide, build ---------------- *)
\* the comparison with the division of the configured percentage by 100 left out
WithinThresholdNoPercent(total_fee, total_sat_amount) ==
  BatchingThresholdPct * total_sat_amount >= IntTimes1e8(total_fee)

\* batching_threshold >= fee_to_amount_proportion, with
\* batching_threshold = pct / 100 and proportion = int(total_fee * 1.0e8) / total
WithinThreshold(total_fee, total_sat_amount) ==
  BatchingThresholdPct * total_sat_amount >= 100 * IntTimes1e8(total_fee)

\* tx.txid(): transactions are told apart by the row their cycle inserted
TxidOf(sr_id) == sr_id

\* The new row is inserted (sr_id); within the threshold the transaction is
\* built (create_tx may raise) and added to the wallet, and the broadcast awaited.
Decide(rec, led, buildOk) ==
  LET sr_id == Len(led) + 1
  IN IF WithinThreshold(rec.total_fee, rec.total_sat_amount)
     THEN IF buildOk
          THEN [rec EXCEPT !.pc = "broadcasting", !.sr_id = sr_id,
                           !.txid = TxidOf(sr_id), !.wview = @ \cup {TxidOf(sr_id)}]
          ELSE [rec EXCEPT !.pc = "failed", !.err = "build", !.sr_id = sr_id]
     ELSE [rec EXCEPT !.pc = "done", !.sr_id = sr_id]

\* create_tx(outputs, fee): the transaction, with the (address, BTC float)
\* outputs and the BTC float fee it was built from; reqs names the rows the
\* outputs were made from, completed is set when the send that built it has
\* broadcast it and updated the ledger, interrupted_at is the number of rows
\* the ledger had when the process was killed during its broadcast (0: it was not)
CreateTx(txid, wallet_id, outputs, total_fee, reqs) ==
  [txid |-> txid, wallet_id |-> wallet_id, outputs |-> outputs,
   total_fee |-> total_fee, reqs |-> reqs, completed |-> FALSE,
   interrupted_at |-> 0]

\* the outputs of a transaction in satoshis: create_tx passes every amount
\* through satoshis_or_max
TxOuts(t, truncating) ==
  [k \in 1..Len(t.outputs) |-> <<t.outputs[k][1], Satoshis(t.outputs[k][2], truncating)>>]

\* the fee a transaction pays in satoshis: create_tx passes it through satoshis
TxFee(t, truncating) == Satoshis(t.total_fee, truncating)

\* the transaction a call has built and is broadcasting
BuiltTx(rec, led) ==
  CreateTx(rec.txid, rec.wallet_id, Outputs(rec, led), rec.total_fee,
           Range(rec.unsent) \cup {rec.sr_id})

(* ---------------- a call runs to its next suspension ---------------- *)
\* the call's state when it next suspends or ends, from a wait it stands in
RunRec(rec, led, a, o) ==
  LET r1 == IF rec.pc = "wait_conn" /\ connected
            THEN GetTxDetails(rec, led, a.addr, a.btc_amount, a.pw_ok) ELSE rec
      r2 == IF r1.pc = "wait_fee" /\ feeEstimates THEN Estimate(r1, o.ok, o.fee) ELSE r1
  IN IF r2.pc = "decide" THEN Decide(r2, led, o.buildOk) ELSE r2

\* placeholder for the arguments of a call that does not read them in this step
NoArguments == [addr |-> "none", btc_amount |-> 0, pw_ok |-> FALSE]

\* the arguments of a call, read once the connection is up
Arguments(reads) ==
  IF ~reads THEN {NoArguments}
  ELSE {[addr |-> p[1], btc_amount |-> p[2], pw_ok |-> b] : p \in Payments, b \in BOOLEAN}

\* what the collaborators answer on the way: get_tx_size succeeds or raises
\* (ok), conf.estimate_fee returns fee, create_tx succeeds or raises (buildOk)
Outcomes(kind, estimates) ==
  IF ~estimates THEN {[ok |-> FALSE, fee |-> 0, buildOk |-> FALSE]}
  ELSE {[ok |-> FALSE, fee |-> 0, buildOk |-> FALSE]} \cup
       {[ok |-> TRUE, fee |-> f, buildOk |-> b] :
          f \in FeeValues, b \in IF kind = "send" THEN BOOLEAN ELSE {FALSE}}

\* Run with the insert moved in front of _get_tx_details: the row is there even
\* when the estimation raises
RunInsertFirst(c, rec, a, o) ==
  LET r3 == RunRec(rec, ledger, a, o)
      ins == r3.sr_id # 0 \/ (r3.kind = "send" /\ r3.pc = "failed" /\ r3.err = "estimate")
  IN /\ cyc' = [cyc EXCEPT ![c] = IF ins THEN [r3 EXCEPT !.sr_id = Len(ledger) + 1] ELSE r3]
     /\ ledger' = IF ins
                  THEN InsertTransaction(ledger, r3.addr, SatAmount(r3), r3.wallet_id)
                  ELSE ledger
     /\ wdisk' = IF r3.pc = "broadcasting"
                 THEN [wdisk EXCEPT ![rec.wallet_id] = r3.wview]
                 ELSE wdisk
     /\ UNCHANGED <<network, connected, feeEstimates>>

\* call c goes from rec to its next suspension; the ledger gets the new row
\* when the call reaches the insert, the wallet file is saved after add_transaction
Run(c, rec, a, o) ==
  LET r3 == RunRec(rec, ledger, a, o)
  IN /\ cyc' = [cyc EXCEPT ![c] = r3]
     /\ ledger' = IF r3.sr_id # 0
                  THEN InsertTransaction(ledger, r3.addr, SatAmount(r3), r3.wallet_id)
                  ELSE ledger
     /\ wdisk' = IF r3.pc = "broadcasting"
                 THEN [wdisk EXCEPT ![rec.wallet_id] = r3.wview]
                 ELSE wdisk
     /\ UNCHANGED <<network, connected, feeEstimates>>

\* a call that has ended is answered before anything else happens: the
\* handler returns without suspending again
NoneFinished == \A c \in Cycles : cyc[c].pc \notin {"done", "failed"}

\* A presend or send call arrives; it takes the lowest free slot.
Start(c, kind, wallet_id, a, o) ==
  /\ NoneFinished
  /\ cyc[c].pc = "idle"
  /\ \A d \in Cycles : d < c => cyc[d].pc # "idle"
  /\ kind = "send" => Len(ledger) + Cardinality(PendingInserts) < MaxReq
  /\ Run(c, InitCmdManager(kind, wallet_id, wdisk[wallet_id]), a, o)

\* wait_for_connection ends for a call that was suspended in it
ResumeConnected(c, a, o) ==
  /\ NoneFinished
  /\ cyc[c].pc = "wait_conn"
  /\ connected
  /\ Run(c, cyc[c], a, o)

\* wait_for_fee_estimates ends for a call that was suspended in it
ResumeFeeEstimates(c, o) ==
  /\ NoneFinished
  /\ cyc[c].pc = "wait_fee"
  /\ feeEstimates
  /\ Run(c, cyc[c], NoArguments, o)

(* ---------------- send: after the broadcast ---------------- *)
\* async_broadcast returned, the transaction propagated: the ledger is updated;
\* if the update raises, the except branch removes the transaction from the
\* wallet and saves it
BroadcastOk(c, updOk) ==
  /\ NoneFinished
  /\ cyc[c].pc = "broadcasting"
  /\ network' = network \cup {[BuiltTx(cyc[c], ledger) EXCEPT !.completed = updOk]}
  /\ LET w == cyc[c].wallet_id
     IN IF updOk
        THEN /\ ledger' = UpdateTransactions(ledger, w, cyc[c].txid, cyc[c].total_fee,
                                             cyc[c].total_sat_amount)
             /\ cyc' = [cyc EXCEPT ![c].pc = "done"]
             /\ UNCHANGED wdisk
        ELSE /\ cyc' = [cyc EXCEPT ![c].pc = "failed", ![c].err = "update",
                          ![c].wview = @ \ {cyc[c].txid}]
             /\ wdisk' = [wdisk EXCEPT ![w] = cyc[c].wview \ {cyc[c].txid}]
             /\ UNCHANGED ledger
  /\ UNCHANGED <<connected, feeEstimates>>

\* the failure path without the remove_transaction calls: the transaction
\* stays in the wallet and the wallet file is not rewritten
BroadcastFailedNoRemove(c, propagated) ==
  /\ NoneFinished
  /\ cyc[c].pc = "broadcasting"
  /\ network' = IF propagated THEN network \cup {BuiltTx(cyc[c], ledger)} ELSE network
  /\ cyc' = [cyc EXCEPT ![c].pc = "failed", ![c].err = "broadcast"]
  /\ UNCHANGED <<ledger, wdisk, connected, feeEstimates>>

\* network.broadcast_transaction raised: rejected (not propagated), or timed
\* out after the server had taken the transaction (propagated).
\* async_broadcast removes the transaction from the wallet, and the except
\* branch of send removes it again and saves the wallet
BroadcastFailed(c, propagated) ==
  /\ NoneFinished
  /\ cyc[c].pc = "broadcasting"
  /\ network' = IF propagated THEN network \cup {BuiltTx(cyc[c], ledger)} ELSE network
  /\ cyc' = [cyc EXCEPT ![c].pc = "failed", ![c].err = "broadcast",
               ![c].wview = @ \ {cyc[c].txid}]
  /\ wdisk' = [wdisk EXCEPT ![cyc[c].wallet_id] = cyc[c].wview \ {cyc[c].txid}]
  /\ UNCHANGED <<ledger, connected, feeEstimates>>

\* the HTTP handler has answered (result or error); the slot is free again
Return(c) ==
  /\ cyc[c].pc \in {"done", "failed"}
  /\ cyc' = [cyc EXCEPT ![c] = IdleCycle]
  /\ UNCHANGED <<ledger, wdisk, network, connected, feeEstimates>>

(* ---------------- environment ---------------- *)
\* the network connection comes up
NetConnect ==
  /\ NoneFinished
  /\ ~connected
  /\ connected' = TRUE
  /\ UNCHANGED <<ledger, wdisk, network, feeEstimates, cyc>>

\* the first fee estimates arrive from the server
FeeArrive ==
  /\ NoneFinished
  /\ connected
  /\ ~feeEstimates
  /\ feeEstimates' = TRUE
  /\ UNCHANGED <<ledger, wdisk, network, connected, cyc>>

\* One step of the service.  Each disjunct first tests what call c stands in,
\* so that the inputs are enumerated only for a call that can take the step.
\* the connection is lost: is_connected() is false again and the fee
\* estimates of the lost interfaces are gone
NetDrop ==
  /\ NoneFinished
  /\ connected
  /\ connected' = FALSE
  /\ feeEstimates' = FALSE
  /\ UNCHANGED <<ledger, wdisk, network, cyc>>

\* the calls that are awaiting their broadcast
Broadcasting == {c \in Cycles : cyc[c].pc = "broadcasting"}

\* The process is killed and started again while calls are in progress: the
\* calls are gone, the ledger and the wallet files are as they were written,
\* the new process has no connection yet.  Of the transactions whose
\* broadcast was awaited, those in propagated had reached the network.
Crash(propagated) ==
  /\ NoneFinished
  /\ \E c \in Cycles : cyc[c].pc # "idle"
  /\ propagated \subseteq Broadcasting
  /\ network' = network \cup
       {[BuiltTx(cyc[c], ledger) EXCEPT !.interrupted_at = Len(ledger)] : c \in propagated}
  /\ cyc' = [c \in Cycles |-> IdleCycle]
  /\ connected' = FALSE
  /\ feeEstimates' = FALSE
  /\ UNCHANGED <<ledger, wdisk>>

Next ==
  \/ \E c \in Cycles :
       /\ NoneFinished /\ cyc[c].pc = "idle"
       /\ \E kind \in {"presend", "send"}, wallet_id \in Wallets :
            \E a \in Arguments(connected) :
              \E o \in Outcomes(kind, a.pw_ok /\ feeEstimates) :
                Start(c, kind, wallet_id, a, o)
  \/ \E c \in Cycles :
       /\ NoneFinished /\ cyc[c].pc = "wait_conn" /\ connected
       /\ \E a \in Arguments(TRUE) :
            \E o \in Outcomes(cyc[c].kind, a.pw_ok /\ feeEstimates) :
              ResumeConnected(c, a, o)
  \/ \E c \in Cycles :
       /\ NoneFinished /\ cyc[c].pc = "wait_fee" /\ feeEstimates
       /\ \E o \in Outcomes(cyc[c].kind, TRUE) : ResumeFeeEstimates(c, o)
  \/ \E c \in Cycles, updOk \in BOOLEAN : BroadcastOk(c, updOk)
  \/ \E c \in Cycles, propagated \in BOOLEAN : BroadcastFailed(c, propagated)
  \/ \E c \in Cycles : Return(c)
  \/ NetConnect
  \/ FeeArrive
  \/ NetDrop
  \/ \E propagated \in SUBSET Broadcasting : Crash(propagated)

Spec == Init /\ [][Next]_vars

\* The event loop resumes a coroutine whose wait is over, the network client
\* answers every broadcast (result or error) and a finished handler returns.
\* Nothing obliges the network to connect or the server to send estimates.
FairSpec ==
  /\ Spec
  /\ \A c \in Cycles :
       /\ WF_vars(\E a \in Arguments(TRUE) :
                    \E o \in Outcomes(cyc[c].kind, a.pw_ok /\ feeEstimates) :
                      ResumeConnected(c, a, o))
       /\ WF_vars(\E o \in Outcomes(cyc[c].kind, TRUE) : ResumeFeeEstimates(c, o))
       /\ WF_vars(\E b \in BOOLEAN : BroadcastOk(c, b) \/ BroadcastFailed(c, b))
       /\ WF_vars(Return(c))

(* ======================================================================= *)
(* Properties                                                              *)
(* ======================================================================= *)

\* the rows a send call put into its transaction: its snapshot and its own row
BatchOf(rec) == Range(rec.unsent) \cup {rec.sr_id}

\* the rows stamped with a txid
MarkedWith(txid) == {i \in 1..Len(ledger) : ledger[i].txid = txid}

\* the transactions of the sends that broadcast successfully and completed
Completed == {t \in network : t.completed}

\* C1: no request is paid by two different successfully broadcast
\* transactions: the request sets of any two of them are disjoint.
C1_DisjointBatches ==
  \A t1 \in Completed, t2 \in Completed : t1.txid # t2.txid => t1.reqs \cap t2.reqs = {}

\* C2: for every batch whose send broadcast it and updated the ledger, the
\* fee attributions recorded with its txid sum exactly to the fee the
\* transaction pays, whichever electrum is installed.
C2_AttributionsSumToFee ==
  \A t \in Completed, truncating \in BOOLEAN :
    SumOver([i \in MarkedWith(t.txid) |-> ledger[i].fee], MarkedWith(t.txid))
      = TxFee(t, truncating)

\* C3: a row only ever goes from Queued to Sent: no row disappears, and a
\* Sent row keeps its txid, its fee and everything else in every later step.
C3_StatusTransitions ==
  [][\A i \in 1..Len(ledger) :
       /\ i <= Len(ledger')
       /\ Status(ledger[i]) = "Sent" => ledger'[i] = ledger[i]]_vars

\* C3 witness: a Sent row has kept its txid while a later send of the same
\* wallet broadcast its own transaction and updated the ledger.
C3_Witness ==
  \E c \in Cycles, i \in 1..Len(ledger) :
    /\ cyc[c].pc = "done" /\ cyc[c].kind = "send" /\ cyc[c].txid # NoTxid
    /\ ledger[i].wallet_id = cyc[c].wallet_id
    /\ i < cyc[c].sr_id
    /\ ledger[i].txid \notin {NoTxid, cyc[c].txid}

\* C4: a send that found other requests Queued, computed a ratio within the
\* threshold and broadcast successfully ends with its transaction accepted and
\* every request of its batch Sent with that transaction's txid.
C4_BatchedTogether ==
  \A c \in Cycles :
    (cyc[c].pc = "done" /\ cyc[c].kind = "send" /\ cyc[c].txid # NoTxid
       /\ cyc[c].unsent # <<>>)
    => /\ \E t \in Completed : t.txid = cyc[c].txid /\ t.reqs = BatchOf(cyc[c])
       /\ \A i \in BatchOf(cyc[c]) : ledger[i].txid = cyc[c].txid

\* the ratio int(total_fee * 1.0e8) / total_sat_amount is above pct / 100
RatioAboveThreshold(rec) ==
  100 * IntTimes1e8(rec.total_fee) > BatchingThresholdPct * rec.total_sat_amount

\* call c reaches the insert of its row in this step
ReachesInsert(c) == cyc[c].sr_id = 0 /\ cyc'[c].sr_id # 0

\* C5: a send whose computed ratio is above the threshold builds and
\* broadcasts nothing: the step only appends the new row, Queued and without
\* txid or fee, leaves the wallet file and the network alone, and returns
\* normally with the id of the new row.
C5_AboveThresholdQueues ==
  [][\A c \in Cycles :
       (ReachesInsert(c) /\ RatioAboveThreshold(cyc'[c]))
       => /\ cyc'[c].pc = "done" /\ cyc'[c].txid = NoTxid
          /\ cyc'[c].sr_id = Len(ledger) + 1
          /\ ledger' = Append(ledger, NewRow(cyc'[c].addr, SatAmount(cyc'[c]),
                                             cyc'[c].wallet_id))
          /\ network' = network /\ wdisk' = wdisk]_vars

\* C5 witness: a send has returned above the threshold with another request
\* of the wallet Queued before it, and both are Queued.
C5_Witness ==
  \E c \in Cycles :
    /\ cyc[c].pc = "done" /\ cyc[c].kind = "send" /\ cyc[c].txid = NoTxid
    /\ RatioAboveThreshold(cyc[c])
    /\ cyc[c].unsent # <<>>
    /\ \A i \in BatchOf(cyc[c]) : Status(ledger[i]) = "Queued"

\* the batch-size cap the claim speaks of
MaxBatch == 2

\* C6: a send whose batch has reached the batch-size cap broadcasts even
\* above the threshold, so its requests do not stay Queued.
C6_CapForcesBroadcast ==
  \A c \in Cycles :
    (cyc[c].pc = "done" /\ cyc[c].kind = "send" /\ Len(cyc[c].unsent) + 1 >= MaxBatch)
    => cyc[c].txid # NoTxid

\* call c learns in this step that its broadcast failed
BroadcastFails(c) ==
  cyc[c].pc = "broadcasting" /\ cyc'[c].pc = "failed" /\ cyc'[c].err = "broadcast"

C8_BuildErrorMarksFailed ==
  \A c \in Cycles :
    (cyc[c].pc = "failed" /\ cyc[c].err = "build")
    => \A i \in BatchOf(cyc[c]) : Status(ledger[i]) = "Failed"

\* C9: every call ends: a call that is waiting for the connection or for
\* fee estimates gets its result or an error.
C9_EveryCallEnds ==
  \A c \in Cycles :
    (cyc[c].pc \in {"wait_conn", "wait_fee"}) ~> (cyc[c].pc \in {"done", "failed"})

\* send call c fails in this step because the estimation raised
EstimationFails(c) ==
  /\ cyc[c].pc \in {"idle", "wait_conn", "wait_fee"}
  /\ cyc'[c].pc = "failed" /\ cyc'[c].err = "estimate" /\ cyc'[c].kind = "send"

C11_NoRepayAfterRestart ==
  \A t1 \in network, t2 \in network :
    (t1.interrupted_at > 0 /\ t2.txid > t1.interrupted_at)
    => t1.reqs \cap t2.reqs = {}

\* C12: when a send that reached its decision ends, completed or failed, the
\* members of its batch are all in the same state: all Queued, or all Sent
\* with one txid.
C12_BatchUniform ==
  \A c \in Cycles :
    (cyc[c].pc \in {"done", "failed"} /\ cyc[c].kind = "send" /\ cyc[c].sr_id # 0)
    => \A i \in BatchOf(cyc[c]), j \in BatchOf(cyc[c]) : ledger[i].txid = ledger[j].txid

\* C13: a row is Sent with txid T only if the network has transaction T and
\* the row is one of the requests T was built from, its (address, amount)
\* being one of T's outputs.
C13_SentOnlyIfPaid ==
  \A i \in 1..Len(ledger) :
    ledger[i].txid # NoTxid
    => \E t \in network :
         /\ t.txid = ledger[i].txid
         /\ i \in t.reqs
         /\ \E k \in 1..Len(t.outputs) :
              t.outputs[k] = <<ledger[i].address, ledger[i].amount>>

\* C15: when a send ends in an error although its transaction has reached the
\* network (the ledger update raised, or the broadcast call raised after the
\* transaction had propagated), the transaction stays in the wallet file and
\* no request of the batch is left Queued.
C15_PropagatedTxKept ==
  [][\A c \in Cycles :
       (cyc[c].pc = "broadcasting" /\ cyc'[c].pc = "failed"
          /\ \E t \in network' : t.txid = cyc[c].txid)
       => /\ cyc[c].txid \in wdisk'[cyc[c].wallet_id]
          /\ \A i \in BatchOf(cyc[c]) : ledger'[i].txid # NoTxid]_vars

\* C16: no step of a presend call, whether it goes on, succeeds or fails,
\* changes the ledger, the network or a wallet file, and the call ends
\* without a row and without a transaction.
C16_PresendIsDryRun ==
  [][\A c \in Cycles :
       (cyc'[c].kind = "presend" /\ cyc'[c] # cyc[c])
       => /\ ledger' = ledger /\ network' = network /\ wdisk' = wdisk
          /\ cyc'[c].sr_id = 0 /\ cyc'[c].txid = NoTxid
          /\ cyc'[c].wview = wdisk[cyc'[c].wallet_id] \/ cyc'[c].wview = cyc[c].wview]_vars

\* C16 witness: a presend has returned its estimate for a wallet that has a
\* Queued request, and the request is still Queued.
C16_Witness ==
  \E c \in Cycles :
    /\ cyc[c].pc = "done" /\ cyc[c].kind = "presend"
    /\ cyc[c].unsent # <<>>
    /\ \A i \in Range(cyc[c].unsent) : Status(ledger[i]) = "Queued"

\* C17: a send that builds its transaction puts in it exactly the new request
\* and the requests of its wallet that are Queued at that moment, each once
\* and none of another wallet; and no step of a send changes a row of
\* another wallet.
C17_BatchIsWalletQueue ==
  [][\A c \in Cycles :
       /\ (cyc[c].pc # "broadcasting" /\ cyc'[c].pc = "broadcasting") =>
            /\ BatchOf(cyc'[c]) = UnsentIds(ledger, cyc'[c].wallet_id) \cup {cyc'[c].sr_id}
            /\ Len(Outputs(cyc'[c], ledger')) = Cardinality(BatchOf(cyc'[c]))
            /\ \A i \in BatchOf(cyc'[c]) : ledger'[i].wallet_id = cyc'[c].wallet_id
       /\ (cyc'[c].kind = "send" /\ cyc'[c] # cyc[c]) =>
            \A i \in 1..Len(ledger) :
              ledger[i].wallet_id # cyc'[c].wallet_id => ledger'[i] = ledger[i]]_vars

\* C18: the fee a presend or send returns for the new request is
\* amount_new / total_amount * total_fee, where total_amount is the new amount
\* plus the amounts of all requests Queued for the wallet when the call reads
\* the ledger, and total_fee is the fee estimated for that batch.
C18_ProportionalShare ==
  [][\A c \in Cycles :
       /\ (cyc[c].pc \in {"idle", "wait_conn"} /\ cyc'[c].pc \notin {"idle", "wait_conn"}
             /\ cyc'[c].err # "password") =>
            LET queued == UnsentIds(ledger, cyc'[c].wallet_id)
            IN cyc'[c].total_sat_amount =
                 IntTimes1e8(cyc'[c].btc_amount)
                   + SumOver([i \in queued |-> ledger[i].amount], queued)
       /\ (cyc[c].pc # "done" /\ cyc'[c].pc = "done") =>
            /\ cyc'[c].this_tx_fee[1] = IntTimes1e8(cyc'[c].btc_amount) * cyc'[c].total_fee
            /\ cyc'[c].this_tx_fee[2] = cyc'[c].total_sat_amount
            /\ cyc'[c].total_fee \in FeeValues
            /\ cyc'[c].total_sat_amount = cyc[c].total_sat_amount
                 \/ cyc[c].pc \in {"idle", "wait_conn"}]_vars

\* C18 witness: a call has returned a share smaller than the whole fee, for
\* a batch with a Queued request besides the new one.
C18_Witness ==
  \E c \in Cycles :
    /\ cyc[c].pc = "done" /\ cyc[c].unsent # <<>>
    /\ cyc[c].this_tx_fee[1] > 0
    /\ cyc[c].this_tx_fee[1] < cyc[c].total_fee * cyc[c].this_tx_fee[2]

\* C19: a presend or send call whose api_password is not the configured one
\* ends with the password error in the step that reads it: it has no row and
\* no transaction, and the ledger, the network and the wallet files are as
\* they were; no call goes on with a wrong password.
C19_WrongPasswordIsNoOp ==
  [][\A c \in Cycles :
       (cyc[c].pc \in {"idle", "wait_conn"} /\ cyc'[c].pc \notin {"idle", "wait_conn"}
          /\ ~cyc'[c].pw_ok)
       => /\ cyc'[c].pc = "failed" /\ cyc'[c].err = "password"
          /\ cyc'[c].sr_id = 0 /\ cyc'[c].txid = NoTxid
          /\ ledger' = ledger /\ network' = network /\ wdisk' = wdisk]_vars

\* C19 witness: a send with a wrong password has ended in the password error
\* while a request of its wallet is Queued, and nothing was added.
C19_Witness ==
  \E c \in Cycles :
    /\ cyc[c].pc = "failed" /\ cyc[c].err = "password" /\ cyc[c].kind = "send"
    /\ cyc[c].sr_id = 0
    /\ \E i \in 1..Len(ledger) :
         ledger[i].wallet_id = cyc[c].wallet_id /\ Status(ledger[i]) = "Queued"

====
